---- MODULE Spec2Model ----
(***************************************************************************)
(* The OBJ viewer of src/apps/3dModels/objViewer.js: an asynchronous       *)
(* XMLHttpRequest load of a model file, the parse that its completion      *)
(* callback runs, and the requestAnimationFrame loop that uploads the      *)
(* parsed arrays into four WebGL buffers once and then draws every frame.  *)
(***************************************************************************)
EXTENDS Integers, Sequences, FiniteSets

\* ------------------------------------------------------------------ bounds

\* Number of readOBJFile calls a behaviour may make.
MaxLoads == 2

LoadIds == 1..MaxLoads

\* Number of readOBJFile calls a behaviour of the fair specification may make.
MaxFairLoads == 1

\* Number of readOBJFile calls a behaviour of the animation specification
\* may make, and number of frames it counts.
MaxAnimLoads == 1

MaxFrames == 4

\* Milliseconds between two frames that animate() may measure.
ElapsedMs == {0, 6000}

\* The values of Date.now() - last that the animation specification holds
\* fixed over a behaviour: none, a display frame, seven seconds, more than a
\* full turn, and a clock that was set back a second between two frames.
AnimElapsedMs == {-1000, 0, 16, 7000, 13000}

\* XMLHttpRequest.status values a completed request may carry: the resource
\* was found, was not found, or the server failed.
HttpStatuses == {200, 404, 500}

\* ------------------------------------------------------------ program text

ANGLE_STEP == 30

\* Angles are counted in thousandths of a degree, which keeps
\* ANGLE_STEP * elapsed / 1000 exact for every elapsed time in milliseconds.
FullTurn == 360 * 1000

Null == <<>>

\* What OBJDoc.parse makes of a response text, whatever status it came with:
\* a failure, or one of the meshes.
MeshNames == {"tri", "quad"}

ParseResults == {"fail"} \cup MeshNames

VertexCount(mesh) == IF mesh = "tri" THEN 3 ELSE 4

MeshTag(mesh) == IF mesh = "tri" THEN 100 ELSE 200

\* The flattened arrays objDoc.getDrawingInfo() returns: 3 floats per vertex
\* for positions and normals, 4 per vertex for colors, and triangle indices.
MeshVertices(mesh) == [i \in 1..(3 * VertexCount(mesh)) |-> MeshTag(mesh) + i]

MeshNormals(mesh) == [i \in 1..(3 * VertexCount(mesh)) |-> MeshTag(mesh) + 30 + i]

MeshColors(mesh) == [i \in 1..(4 * VertexCount(mesh)) |-> MeshTag(mesh) + 60 + i]

MeshIndices(mesh) == IF mesh = "tri" THEN <<0, 1, 2>> ELSE <<0, 1, 2, 0, 2, 3>>

GetDrawingInfo(objDoc) ==
    [load     |-> objDoc.load,
     vertices |-> MeshVertices(objDoc.mesh),
     normals  |-> MeshNormals(objDoc.mesh),
     colors   |-> MeshColors(objDoc.mesh),
     indices  |-> MeshIndices(objDoc.mesh)]

IsMTLComplete(objDoc) == objDoc.mtl

\* The % of JavaScript: the remainder takes the sign of the dividend.
JsRem(a, b) == IF a >= 0 THEN a % b ELSE 0 - ((0 - a) % b)

\* ------------------------------------------------------------------- state

VARIABLES
    requests,       \* per load: the XMLHttpRequest's readyState and status
    parsed,         \* per load: "none" until OBJDoc.parse ran, then its result
    g_objDoc,       \* the parsed document waiting for upload, or Null
    g_drawingInfo,  \* the arrays of the uploaded model, or Null
    model,          \* the data stores of the four buffers of initVertexBuffers
    currentAngle,   \* thousandths of a degree
    tickScheduled,  \* a requestAnimationFrame(tick) callback is outstanding
    glCalls,        \* the WebGL calls the most recent tick issued, in order
    lastTick,       \* the load state the most recent tick ended in, or "none"
    uploads,        \* per load: the outcome of each onReadComplete run for it
    overlapped,     \* readOBJFile was once called with a request still on its way
    frames,         \* the ticks run so far, counted by the animation specification
    stepMs          \* the time between frames the animation specification fixes

vars == <<requests, parsed, g_objDoc, g_drawingInfo, model, currentAngle,
          tickScheduled, glCalls, lastTick, uploads, overlapped, frames, stepMs>>

BufferNames == {"vertexBuffer", "normalBuffer", "colorBuffer", "indexBuffer"}

InitProgram ==
    /\ requests = [l \in LoadIds |-> [readyState |-> 0, status |-> 0]]
    /\ parsed = [l \in LoadIds |-> "none"]
    /\ g_objDoc = Null
    /\ g_drawingInfo = Null
    /\ model = [b \in BufferNames |-> <<>>]
    /\ currentAngle = 0
    /\ tickScheduled = TRUE
    /\ glCalls = <<>>
    /\ lastTick = "none"
    /\ uploads = [l \in LoadIds |-> <<>>]
    /\ overlapped = FALSE

Init ==
    /\ InitProgram
    /\ frames = 0
    /\ stepMs = 0

\* ------------------------------------------------------------- the loader

InFlight(l) == requests[l].readyState \in 1..3

\* The load state the two globals and the outstanding requests stand for:
\* a parsed document waiting for the renderer, else a request on its way,
\* else an uploaded model, else nothing.
LoadState ==
    IF g_objDoc # Null THEN "ParsedReady"
    ELSE IF \E l \in LoadIds : InFlight(l) THEN "Pending"
    ELSE IF g_drawingInfo # Null THEN "Uploaded"
    ELSE "Idle"

\* readOBJFile: a new request is opened and sent; nothing else changes.
ReadOBJFile(l) ==
    /\ requests[l].readyState = 0
    /\ \A k \in LoadIds : k < l => requests[k].readyState # 0
    /\ requests' = [requests EXCEPT ![l] = [readyState |-> 1, status |-> 0]]
    /\ overlapped' = (overlapped \/ \E k \in LoadIds : InFlight(k))
    /\ UNCHANGED <<parsed, g_objDoc, g_drawingInfo, model, currentAngle,
                   tickScheduled, glCalls, lastTick, uploads, frames, stepMs>>

\* A variant of onReadOBJFile whose failure branch leaves g_drawingInfo alone.
OnReadOBJFileKeepsModel(l, result, mtl) ==
    /\ parsed' = [parsed EXCEPT ![l] = result]
    /\ g_objDoc' = IF result = "fail" THEN Null
                   ELSE [load |-> l, mesh |-> result, mtl |-> mtl]
    /\ UNCHANGED g_drawingInfo

\* A variant of onReadOBJFile whose failure branch leaves g_objDoc alone.
OnReadOBJFileKeepsDoc(l, result, mtl) ==
    /\ parsed' = [parsed EXCEPT ![l] = result]
    /\ IF result = "fail"
       THEN /\ g_drawingInfo' = Null
            /\ UNCHANGED g_objDoc
       ELSE /\ g_objDoc' = [load |-> l, mesh |-> result, mtl |-> mtl]
            /\ UNCHANGED g_drawingInfo

\* A variant of onReadOBJFile that keeps a document still waiting for its
\* upload: the first writer wins.
OnReadOBJFileKeepsFirst(l, result, mtl) ==
    /\ parsed' = [parsed EXCEPT ![l] = result]
    /\ IF result = "fail"
       THEN /\ g_objDoc' = Null
            /\ g_drawingInfo' = Null
       ELSE /\ g_objDoc' = IF g_objDoc # Null THEN g_objDoc
                           ELSE [load |-> l, mesh |-> result, mtl |-> mtl]
            /\ UNCHANGED g_drawingInfo

\* A variant of onReadOBJFile that drops the response of a request when a
\* later readOBJFile has been called: the load issued last wins.
OnReadOBJFileNewestWins(l, result, mtl) ==
    /\ parsed' = [parsed EXCEPT ![l] = result]
    /\ IF \E k \in LoadIds : k > l /\ requests[k].readyState # 0
       THEN UNCHANGED <<g_objDoc, g_drawingInfo>>
       ELSE IF result = "fail"
       THEN /\ g_objDoc' = Null
            /\ g_drawingInfo' = Null
       ELSE /\ g_objDoc' = [load |-> l, mesh |-> result, mtl |-> mtl]
            /\ UNCHANGED g_drawingInfo

\* onReadOBJFile: parse, and keep the document only when the parse succeeds.
OnReadOBJFile(l, result, mtl) ==
    /\ parsed' = [parsed EXCEPT ![l] = result]
    /\ IF result = "fail"
       THEN /\ g_objDoc' = Null
            /\ g_drawingInfo' = Null
       ELSE /\ g_objDoc' = [load |-> l, mesh |-> result, mtl |-> mtl]
            /\ UNCHANGED g_drawingInfo

\* The test of request.onreadystatechange.
ShouldParse(readyState, status) == readyState = 4 /\ status # 404

\* request.onreadystatechange, fired when the request moves on to its next
\* readyState. The handler reads the status only once the readyState is 4,
\* so the status is drawn then and is 0, as in a new request, before.
OnReadyStateChange(l) ==
    /\ InFlight(l)
    /\ \E st \in {0} \cup HttpStatuses :
        LET rs == requests[l].readyState + 1
        IN
        /\ (rs = 4) <=> (st # 0)
        /\ requests' = [requests EXCEPT ![l] = [readyState |-> rs, status |-> st]]
        /\ IF ShouldParse(rs, st)
           THEN \E result \in ParseResults, mtl \in BOOLEAN :
                    OnReadOBJFile(l, result, mtl)
           ELSE UNCHANGED <<parsed, g_objDoc, g_drawingInfo>>
    /\ UNCHANGED <<model, currentAngle, tickScheduled, glCalls, lastTick, uploads,
                   overlapped, frames, stepMs>>

\* The material file of the pending document finishes loading.
OnReadMTLFile ==
    /\ g_objDoc # Null
    /\ ~g_objDoc.mtl
    /\ g_objDoc' = [g_objDoc EXCEPT !.mtl = TRUE]
    /\ UNCHANGED <<requests, parsed, g_drawingInfo, model, currentAngle,
                   tickScheduled, glCalls, lastTick, uploads, overlapped,
                   frames, stepMs>>

\* ------------------------------------------------------------ the renderer

GlCall(op, arg, n, ok) == [op |-> op, arg |-> arg, n |-> n, ok |-> ok]

\* A variant of bufferData that writes into the old store as gl.bufferSubData
\* does: what the old store held beyond the new data stays.
BufferSubData(store, data) == data \o SubSeq(store, Len(data) + 1, Len(store))

\* gl.bufferData(target, data, gl.STATIC_DRAW): a new data store holding data.
BufferData(store, data) == data

\* What a data store holds after a bufferData the GPU could not allocate: the
\* GL leaves it undefined; the old contents or none are the outcomes modelled.
FailedBufferData(store, lost) == IF lost THEN <<>> ELSE store

Store(store, data, oom, lost) ==
    IF oom THEN FailedBufferData(store, lost) ELSE BufferData(store, data)

\* onReadComplete: the four arrays of the document go into the four buffers.
\* A failed allocation raises no exception: gl only records OUT_OF_MEMORY.
OnReadComplete(m, objDoc, oom, lost) ==
    LET drawingInfo == GetDrawingInfo(objDoc)
    IN  [model |->
            [vertexBuffer |-> Store(m.vertexBuffer, drawingInfo.vertices, oom, lost),
             normalBuffer |-> Store(m.normalBuffer, drawingInfo.normals, oom, lost),
             colorBuffer  |-> Store(m.colorBuffer, drawingInfo.colors, oom, lost),
             indexBuffer  |-> Store(m.indexBuffer, drawingInfo.indices, oom, lost)],
         calls |->
            <<GlCall("bufferData", "vertexBuffer", Len(drawingInfo.vertices), ~oom),
              GlCall("bufferData", "normalBuffer", Len(drawingInfo.normals), ~oom),
              GlCall("bufferData", "colorBuffer", Len(drawingInfo.colors), ~oom),
              GlCall("bufferData", "indexBuffer", Len(drawingInfo.indices), ~oom)>>,
         drawingInfo |-> drawingInfo]

\* The part of draw after the early return: clear, two uniforms, one draw call.
DrawCalls(drawingInfo) ==
    <<GlCall("clear", "", 0, TRUE),
      GlCall("uniformMatrix4fv", "u_NormalMatrix", 0, TRUE),
      GlCall("uniformMatrix4fv", "u_MvpMatrix", 0, TRUE),
      GlCall("drawElements", "TRIANGLES", Len(drawingInfo.indices), TRUE)>>

\* A variant of draw that returns right after an upload: the first draw call
\* comes a frame later.
DrawUploadOnly(objDoc, drawingInfo, m, oom, lost) ==
    LET doUpload == objDoc # Null /\ IsMTLComplete(objDoc)
        up       == OnReadComplete(m, objDoc, oom, lost)
    IN  [g_objDoc      |-> IF doUpload THEN Null ELSE objDoc,
         g_drawingInfo |-> IF doUpload THEN up.drawingInfo ELSE drawingInfo,
         model         |-> IF doUpload THEN up.model ELSE m,
         calls         |-> IF doUpload THEN up.calls
                           ELSE IF drawingInfo = Null THEN <<>>
                           ELSE DrawCalls(drawingInfo),
         uploaded      |-> IF doUpload THEN objDoc.load ELSE 0]

\* A variant of draw that tests g_drawingInfo before the upload assigns it.
DrawStaleCheck(objDoc, drawingInfo, m, oom, lost) ==
    LET doUpload == objDoc # Null /\ IsMTLComplete(objDoc)
        up       == OnReadComplete(m, objDoc, oom, lost)
        info     == IF doUpload THEN up.drawingInfo ELSE drawingInfo
    IN  [g_objDoc      |-> IF doUpload THEN Null ELSE objDoc,
         g_drawingInfo |-> info,
         model         |-> IF doUpload THEN up.model ELSE m,
         calls         |-> (IF doUpload THEN up.calls ELSE <<>>)
                             \o (IF drawingInfo = Null THEN <<>> ELSE DrawCalls(info)),
         uploaded      |-> IF doUpload THEN objDoc.load ELSE 0]

\* A variant of draw that does not reset g_objDoc after the upload.
DrawKeepsDoc(objDoc, drawingInfo, m, oom, lost) ==
    LET doUpload == objDoc # Null /\ IsMTLComplete(objDoc)
        up       == OnReadComplete(m, objDoc, oom, lost)
        info     == IF doUpload THEN up.drawingInfo ELSE drawingInfo
    IN  [g_objDoc      |-> objDoc,
         g_drawingInfo |-> info,
         model         |-> IF doUpload THEN up.model ELSE m,
         calls         |-> (IF doUpload THEN up.calls ELSE <<>>)
                             \o (IF info = Null THEN <<>> ELSE DrawCalls(info)),
         uploaded      |-> IF doUpload THEN objDoc.load ELSE 0]

\* A variant of draw that draws what g_drawingInfo held and uploads afterwards.
DrawBeforeUpload(objDoc, drawingInfo, m, oom, lost) ==
    LET doUpload == objDoc # Null /\ IsMTLComplete(objDoc)
        up       == OnReadComplete(m, objDoc, oom, lost)
    IN  [g_objDoc      |-> IF doUpload THEN Null ELSE objDoc,
         g_drawingInfo |-> IF doUpload THEN up.drawingInfo ELSE drawingInfo,
         model         |-> IF doUpload THEN up.model ELSE m,
         calls         |-> (IF drawingInfo = Null THEN <<>> ELSE DrawCalls(drawingInfo))
                             \o (IF doUpload THEN up.calls ELSE <<>>),
         uploaded      |-> IF doUpload THEN objDoc.load ELSE 0]

\* A variant of draw that uploads without asking isMTLComplete.
DrawIgnoresMTL(objDoc, drawingInfo, m, oom, lost) ==
    LET doUpload == objDoc # Null
        up       == OnReadComplete(m, objDoc, oom, lost)
        info     == IF doUpload THEN up.drawingInfo ELSE drawingInfo
    IN  [g_objDoc      |-> IF doUpload THEN Null ELSE objDoc,
         g_drawingInfo |-> info,
         model         |-> IF doUpload THEN up.model ELSE m,
         calls         |-> (IF doUpload THEN up.calls ELSE <<>>)
                             \o (IF info = Null THEN <<>> ELSE DrawCalls(info)),
         uploaded      |-> IF doUpload THEN objDoc.load ELSE 0]

\* draw: upload the pending document if its materials are complete, then draw
\* whatever g_drawingInfo holds. The result is the new value of each global,
\* the buffers, the WebGL calls issued, and the load uploaded (0 for none).
Draw(objDoc, drawingInfo, m, oom, lost) ==
    LET doUpload == objDoc # Null /\ IsMTLComplete(objDoc)
        up       == OnReadComplete(m, objDoc, oom, lost)
        info     == IF doUpload THEN up.drawingInfo ELSE drawingInfo
    IN  [g_objDoc      |-> IF doUpload THEN Null ELSE objDoc,
         g_drawingInfo |-> info,
         model         |-> IF doUpload THEN up.model ELSE m,
         calls         |-> (IF doUpload THEN up.calls ELSE <<>>)
                             \o (IF info = Null THEN <<>> ELSE DrawCalls(info)),
         uploaded      |-> IF doUpload THEN objDoc.load ELSE 0]

\* A variant of animate that turns by a fixed angle per frame, the sixtieth
\* of ANGLE_STEP, whatever time has passed.
AnimatePerFrame(angle, elapsed) ==
    JsRem(angle + (ANGLE_STEP * 1000) \div 60, FullTurn)

\* animate, with the time since the last frame, now - last, as its input.
Animate(angle, elapsed) ==
    JsRem(angle + ANGLE_STEP * elapsed, FullTurn)

\* Whether the GPU may refuse an allocation in the coming tick: only a tick
\* that uploads allocates.
AllocationFails ==
    IF g_objDoc # Null /\ IsMTLComplete(g_objDoc) THEN BOOLEAN ELSE {FALSE}

\* A variant of tick that requests the next frame only after a frame that drew.
RescheduleAfterDraw(calls) == calls # <<>>

\* What the frame callback leaves scheduled: it always requests the next frame.
Reschedule(calls) == TRUE

\* tick, run when animate measures the given time since the last frame:
\* animate, draw, requestAnimationFrame(tick).
TickWith(elapsed) ==
    /\ tickScheduled
    /\ UNCHANGED <<requests, parsed, overlapped>>
    /\ \E oom \in AllocationFails, lost \in BOOLEAN :
        LET d == Draw(g_objDoc, g_drawingInfo, model, oom, lost)
        IN  /\ lost => oom
            /\ currentAngle' = Animate(currentAngle, elapsed)
            /\ g_objDoc' = d.g_objDoc
            /\ g_drawingInfo' = d.g_drawingInfo
            /\ model' = d.model
            /\ glCalls' = d.calls
            /\ uploads' = IF d.uploaded = 0 THEN uploads
                          ELSE [uploads EXCEPT ![d.uploaded] = Append(@, ~oom)]
            /\ tickScheduled' = Reschedule(d.calls)
            /\ lastTick' = LoadState'

Tick ==
    /\ \E elapsed \in ElapsedMs : TickWith(elapsed)
    /\ UNCHANGED <<frames, stepMs>>

Next ==
    \/ \E l \in LoadIds : ReadOBJFile(l)
    \/ \E l \in LoadIds : OnReadyStateChange(l)
    \/ OnReadMTLFile
    \/ Tick

Spec == Init /\ [][Next]_vars

\* The same steps, with no more than MaxFairLoads loads started.
FairNext ==
    \/ \E l \in LoadIds : l <= MaxFairLoads /\ ReadOBJFile(l)
    \/ \E l \in LoadIds : OnReadyStateChange(l)
    \/ OnReadMTLFile
    \/ Tick

\* The browser runs every scheduled frame callback; nothing obliges a request
\* to complete.
FairSpec == Init /\ [][FairNext]_vars /\ WF_vars(Tick)

\* A counted tick of a behaviour in which every frame comes stepMs after the
\* one before.
AnimTick ==
    /\ frames < MaxFrames
    /\ TickWith(stepMs)
    /\ frames' = frames + 1
    /\ UNCHANGED stepMs

AnimInit ==
    /\ InitProgram
    /\ frames = 0
    /\ stepMs \in AnimElapsedMs

AnimNext ==
    \/ \E l \in LoadIds : l <= MaxAnimLoads /\ ReadOBJFile(l)
    \/ \E l \in LoadIds : OnReadyStateChange(l)
    \/ OnReadMTLFile
    \/ AnimTick

\* The viewer over its first MaxFrames frames, evenly spaced in time.
AnimSpec == AnimInit /\ [][AnimNext]_vars

\* ------------------------------------------------- vocabulary of the claims

HasCall(calls, op) == \E i \in 1..Len(calls) : calls[i].op = op

\* The most recent tick issued gl.drawElements.
DrawIssued == HasCall(glCalls, "drawElements")

\* The most recent tick ran onReadComplete.
UploadIssued == HasCall(glCalls, "bufferData")

\* The most recent tick ran onReadComplete and the GPU refused the allocation.
UploadFailed == \E i \in 1..Len(glCalls) : glCalls[i].op = "bufferData" /\ ~glCalls[i].ok

\* A tick run now, with no allocation failure, would issue gl.drawElements.
NextTickDraws ==
    HasCall(Draw(g_objDoc, g_drawingInfo, model, FALSE, FALSE).calls, "drawElements")

\* No readOBJFile but that of load l has been called.
OnlyLoad(l) == \A k \in LoadIds \ {l} : requests[k].readyState = 0

\* This step is the completion callback of load l, and it ran the parser.
ParseRan(l) == OnReadyStateChange(l) /\ parsed[l] = "none" /\ parsed'[l] # "none"

EmptyModel == [b \in BufferNames |-> <<>>]

\* The four arrays of a mesh, as the four buffers hold them after an upload.
MeshModel(mesh) ==
    [vertexBuffer |-> MeshVertices(mesh),
     normalBuffer |-> MeshNormals(mesh),
     colorBuffer  |-> MeshColors(mesh),
     indexBuffer  |-> MeshIndices(mesh)]

\* ------------------------------------------------------------------ claims

C2_Original ==
    [][\A l \in LoadIds :
          (ParseRan(l) /\ parsed'[l] = "fail" /\ g_drawingInfo # Null /\ ~overlapped)
            => (model' = model /\ NextTickDraws')
      ]_vars

\* C2 amended: a parse failure while an uploaded model is being drawn leaves
\* the four buffers unchanged and no parsed document pending, but clears
\* g_drawingInfo: the next tick draws nothing, and so does every tick that
\* finds neither a document to upload nor an uploaded model.
C2_ParseFailureStopsDrawing ==
    [][/\ \A l \in LoadIds :
            (ParseRan(l) /\ parsed'[l] = "fail" /\ g_drawingInfo # Null)
              => /\ model' = model
                 /\ LoadState' \in {"Idle", "Pending"}
                 /\ ~NextTickDraws'
       /\ (Tick /\ g_objDoc = Null /\ g_drawingInfo = Null)
            => (~DrawIssued' /\ model' = model)
      ]_vars

\* C2 witness: load 1 was uploaded, then the parse of load 2 failed, then a
\* tick ran: it drew nothing, and the buffers still hold the mesh of load 1.
C2_Witness ==
    /\ ~overlapped
    /\ uploads[1] = <<TRUE>>
    /\ parsed[2] = "fail"
    /\ g_drawingInfo = Null
    /\ glCalls = <<>>
    /\ lastTick = "Idle"
    /\ model = MeshModel(parsed[1])

\* C3 as stated: the parser has run only for requests that are complete with
\* a status saying the resource was found (200), and a completion with any
\* other status leaves the parser uncalled and, with no other load under way
\* and no model uploaded, the state Idle.
C3_Original ==
    [][\A l \in LoadIds :
          /\ ParseRan(l) => (requests'[l].readyState = 4 /\ requests'[l].status = 200)
          /\ (OnReadyStateChange(l) /\ requests'[l].readyState = 4
                /\ requests'[l].status # 200)
               => /\ parsed'[l] = "none"
                  /\ (LoadState' # "Pending" /\ g_drawingInfo = Null)
                        => LoadState' = "Idle"
      ]_vars

\* C4 as stated: when the only load, started while Idle, has failed its fetch
\* (complete with a status other than 200), the state is Idle, the four
\* buffers are as initVertexBuffers left them and no upload has written to
\* them, whatever ticks have run since.
C4_Original ==
    (OnlyLoad(1) /\ requests[1].readyState = 4 /\ requests[1].status # 200)
        => /\ LoadState = "Idle"
           /\ model = EmptyModel
           /\ uploads[1] = <<>>

\* C5 as stated: a tick that uploaded nothing and ran in a load state other
\* than Uploaded issued no draw call and re-scheduled itself (no two loads
\* having been under way at once).
C5_Original ==
    (lastTick \notin {"none", "Uploaded"} /\ ~UploadIssued /\ ~overlapped)
        => (~DrawIssued /\ tickScheduled)

\* C5 amended: a tick issues a draw call exactly when g_drawingInfo holds a
\* model after its upload step: never in Idle, and in Pending or ParsedReady
\* only when an earlier upload is still held, whose index count it then
\* draws; in every case the tick ends normally and re-schedules itself.
C5_NoModelNoDraw ==
    [][Tick =>
          /\ DrawIssued' <=> (g_drawingInfo' # Null)
          /\ LoadState' = "Idle" => ~DrawIssued'
          /\ (LoadState' \in {"Pending", "ParsedReady"} /\ DrawIssued')
                => /\ g_drawingInfo' # Null
                   /\ \E l \in LoadIds : uploads'[l] # <<>>
          /\ tickScheduled'
      ]_vars

\* C5 witness: the most recent tick ran in the state Pending, after a new
\* readOBJFile that followed an upload, and still drew.
C5_Witness ==
    /\ ~overlapped
    /\ lastTick = "Pending"
    /\ DrawIssued
    /\ ~UploadIssued

\* This step uploads for the first time a load that had not been uploaded.
FirstUploadOf(l) == uploads[l] = <<>> /\ uploads'[l] # <<>>

\* C6 as stated: every load whose fetch and parse succeeded has been
\* uploaded exactly once, or is the document still waiting for its upload
\* (no two loads having been under way at once).
C6_Original ==
    \A l \in LoadIds :
        (requests[l].status = 200 /\ parsed[l] \in MeshNames /\ ~overlapped)
            => \/ Len(uploads[l]) = 1
               \/ (uploads[l] = <<>> /\ g_objDoc # Null /\ g_objDoc.load = l)

\* C6 amended: the upload is performed at most once per load and only for a
\* load whose parse succeeded; it is performed by the first tick that finds
\* the load's document in g_objDoc with its materials complete, which resets
\* g_objDoc; a successful load whose document a later completion replaced or
\* discarded before that tick is never uploaded.
C6_UploadAtMostOnce ==
    [][/\ \A l \in LoadIds :
            /\ Len(uploads'[l]) <= 1
            /\ uploads'[l] # <<>> => parsed'[l] \in MeshNames
            /\ FirstUploadOf(l)
                 => (Tick /\ g_objDoc # Null /\ g_objDoc.load = l
                          /\ IsMTLComplete(g_objDoc))
       /\ (Tick /\ g_objDoc # Null /\ IsMTLComplete(g_objDoc))
            => (FirstUploadOf(g_objDoc.load) /\ g_objDoc' = Null)
       /\ g_objDoc' # Null => uploads'[g_objDoc'.load] = <<>>
      ]_vars

\* C6 witness: the parse of load 1 succeeded, load 2, started after load 1
\* had completed, replaced it before any tick uploaded it, and load 2 has
\* been uploaded: load 1 never is.
C6_Witness ==
    /\ ~overlapped
    /\ parsed[1] \in MeshNames
    /\ uploads[1] = <<>>
    /\ Len(uploads[2]) = 1
    /\ g_objDoc = Null
    /\ g_drawingInfo # Null
    /\ g_drawingInfo.load = 2

\* C7: in the calls of a tick every bufferData comes before drawElements; a
\* tick that uploads writes all four buffers, leaves ParsedReady and then
\* draws with the index count it has just uploaded; and no tick has drawn
\* unless some upload has been performed.
C7_UploadBeforeDraw ==
    /\ \A i, j \in 1..Len(glCalls) :
          (glCalls[i].op = "bufferData" /\ glCalls[j].op = "drawElements") => i < j
    /\ UploadIssued =>
          /\ \A b \in BufferNames :
                \E i \in 1..Len(glCalls) :
                    glCalls[i].op = "bufferData" /\ glCalls[i].arg = b
          /\ lastTick \in {"Uploaded", "Pending"}
          /\ DrawIssued
          /\ \A i, j \in 1..Len(glCalls) :
                (glCalls[i].arg = "indexBuffer" /\ glCalls[j].op = "drawElements")
                    => glCalls[j].n = glCalls[i].n
    /\ DrawIssued => \E l \in LoadIds : uploads[l] # <<>>

\* C7 witness: the most recent tick performed the second upload, while the
\* first model was being drawn, and drew after it.
C7_Witness ==
    /\ ~overlapped
    /\ UploadIssued
    /\ DrawIssued
    /\ uploads[1] # <<>>
    /\ uploads[2] # <<>>
    /\ g_drawingInfo # Null
    /\ parsed[1] # parsed[2]

\* C8 as stated: a tick whose upload the GPU refuses leaves the document in
\* g_objDoc (state ParsedReady) and the previous model, if any, in
\* g_drawingInfo, which it goes on to draw.
C8_Original ==
    [][(Tick /\ UploadFailed')
          => /\ LoadState' = "ParsedReady"
             /\ g_objDoc' = g_objDoc
             /\ g_drawingInfo' = g_drawingInfo
             /\ DrawIssued' <=> (g_drawingInfo # Null)
      ]_vars

\* C9: a frame callback is outstanding in every state, so no tick ends
\* without requesting the next one, and the ticks never stop.
C9_TickForever == []tickScheduled /\ []<><<Tick>>_vars

\* C9 witness: the most recent tick ran an upload that the GPU refused, ended
\* normally and requested the next frame.
C9_Witness ==
    /\ UploadFailed
    /\ lastTick = "Uploaded"
    /\ tickScheduled

\* C10: an upload the GPU accepts leaves each of the four buffers holding
\* exactly the uploaded document's array, whatever the buffers held before.
C10_FullOverwrite ==
    [][(Tick /\ g_objDoc # Null /\ UploadIssued' /\ ~UploadFailed')
          => model' = MeshModel(g_objDoc.mesh)
      ]_vars

\* C10 witness: the four-vertex mesh of load 1 was uploaded, and the most
\* recent tick uploaded the three-vertex mesh of load 2 over it.
C10_Witness ==
    /\ ~overlapped
    /\ parsed[1] = "quad"
    /\ parsed[2] = "tri"
    /\ uploads[1] = <<TRUE>>
    /\ uploads[2] = <<TRUE>>
    /\ UploadIssued
    /\ g_drawingInfo # Null
    /\ g_drawingInfo.load = 2
    /\ model = MeshModel("tri")

\* C11 as stated: the count a tick passed to gl.drawElements is the number
\* of indices the index buffer holds.
C11_Original ==
    \A i \in 1..Len(glCalls) :
        glCalls[i].op = "drawElements" => glCalls[i].n = Len(model.indexBuffer)

\* C12: with the same time stepMs >= 0 between frames, the angle after
\* `frames` ticks is ANGLE_STEP * frames * stepMs thousandths of a degree
\* modulo a full turn, in whatever load states the ticks ran.
C12_AngleClosedForm ==
    stepMs >= 0 => currentAngle = (ANGLE_STEP * frames * stepMs) % FullTurn

\* C12 witness: three ticks seven seconds apart, the last of them run with a
\* model uploaded, have turned the angle past a full turn to 270 degrees.
C12_Witness ==
    /\ stepMs = 7000
    /\ frames = 3
    /\ lastTick = "Uploaded"
    /\ DrawIssued
    /\ currentAngle = 270000

\* C16 as stated: after every tick the angle is at least 0 and less than a
\* full turn, whatever time animate measured.
C16_Original == frames > 0 => (0 <= currentAngle /\ currentAngle < FullTurn)

\* The parse of load k succeeded, no tick has uploaded it and its document is
\* no longer the one waiting in g_objDoc.
Dropped(k) ==
    /\ parsed[k] \in MeshNames
    /\ uploads[k] = <<>>
    /\ ~(g_objDoc # Null /\ g_objDoc.load = k)

\* No readOBJFile beyond the first two has been called.
OnlyTwoLoads == \A l \in LoadIds : l > 2 => requests[l].readyState = 0

\* C13: a completion callback whose parse fails leaves no document waiting
\* in g_objDoc, and the state Idle unless another request is on its way; a
\* document dropped from g_objDoc without having been uploaded is not
\* uploaded by any later step.
C13_ParseFailureDiscards ==
    [][/\ \A l \in LoadIds :
            (ParseRan(l) /\ parsed'[l] = "fail")
              => /\ g_objDoc' = Null
                 /\ LoadState' = IF \E k \in LoadIds : requests'[k].readyState \in 1..3
                                 THEN "Pending" ELSE "Idle"
                 /\ \A k \in LoadIds :
                        (g_objDoc # Null /\ g_objDoc.load = k) => Dropped(k)'
       /\ \A k \in LoadIds : Dropped(k) => Dropped(k)'
      ]_vars

\* C13 witness: the document of load 1 was waiting for its upload when the
\* parse of load 2, started after load 1 had completed, failed; the state is
\* Idle, the last tick drew nothing and load 1 has not been uploaded.
C13_Witness ==
    /\ ~overlapped
    /\ OnlyTwoLoads
    /\ parsed[1] \in MeshNames
    /\ parsed[2] = "fail"
    /\ uploads[1] = <<>>
    /\ LoadState = "Idle"
    /\ lastTick = "Idle"
    /\ glCalls = <<>>
    /\ model = EmptyModel

\* C14: a completion whose parse succeeds while a document is still waiting
\* puts its own document in place of the waiting one, uploading nothing,
\* and a tick that uploads transfers the document then in g_objDoc and no
\* other: g_drawingInfo and, when the GPU accepts, the four buffers hold its
\* arrays, and no other load's upload record changes.
C14_LastWriterWins ==
    [][/\ \A l \in LoadIds :
            (ParseRan(l) /\ parsed'[l] \in MeshNames /\ g_objDoc # Null)
              => /\ g_objDoc' # Null
                 /\ g_objDoc'.load = l
                 /\ g_objDoc'.mesh = parsed'[l]
                 /\ uploads' = uploads
                 /\ model' = model
       /\ (Tick /\ UploadIssued')
            => /\ g_objDoc # Null
               /\ g_objDoc' = Null
               /\ g_drawingInfo' = GetDrawingInfo(g_objDoc)
               /\ \A k \in LoadIds \ {g_objDoc.load} : uploads'[k] = uploads[k]
               /\ ~UploadFailed' => model' = MeshModel(g_objDoc.mesh)
      ]_vars

\* C14 witness: load 2 completed with the three-vertex mesh while the
\* four-vertex mesh of load 1 was waiting; the most recent tick uploaded and
\* drew the mesh of load 2, and load 1 was never uploaded.
C14_Witness ==
    /\ OnlyTwoLoads
    /\ parsed[1] = "quad"
    /\ parsed[2] = "tri"
    /\ uploads[1] = <<>>
    /\ uploads[2] = <<TRUE>>
    /\ UploadIssued
    /\ DrawIssued
    /\ model = MeshModel("tri")

\* C15: while the request of the only load has not completed, the state is
\* Pending, the four buffers are empty and no upload has run, the last tick
\* issued no WebGL call and requested the next frame, and the angle has
\* advanced with every tick (for a time stepMs >= 0 between frames).
C15_NeverCompletes ==
    (OnlyLoad(1) /\ InFlight(1))
        => /\ LoadState = "Pending"
           /\ lastTick \in {"none", "Idle", "Pending"}
           /\ model = EmptyModel
           /\ g_drawingInfo = Null
           /\ \A l \in LoadIds : uploads[l] = <<>>
           /\ glCalls = <<>>
           /\ tickScheduled
           /\ stepMs >= 0 => currentAngle = (ANGLE_STEP * frames * stepMs) % FullTurn

\* C15 witness: three frames 16 ms apart have run, the last of them with the
\* request still on its way; the angle stands at 1.44 degrees.
C15_Witness ==
    /\ OnlyLoad(1)
    /\ requests[1].readyState = 3
    /\ lastTick = "Pending"
    /\ stepMs = 16
    /\ frames = 3
    /\ currentAngle = 1440
    /\ tickScheduled

\* C17: a tick that finds a document whose materials are incomplete leaves
\* the document, the four buffers and g_drawingInfo as they were, uploads
\* nothing and draws exactly when a model was uploaded before; and a load is
\* uploaded only by a step that finds its materials complete.
C17_UploadWaitsForMTL ==
    [][/\ (Tick /\ g_objDoc # Null /\ ~IsMTLComplete(g_objDoc))
            => /\ g_objDoc' = g_objDoc
               /\ model' = model
               /\ g_drawingInfo' = g_drawingInfo
               /\ uploads' = uploads
               /\ ~UploadIssued'
               /\ DrawIssued' <=> (g_drawingInfo # Null)
       /\ \A l \in LoadIds :
            FirstUploadOf(l)
              => (g_objDoc # Null /\ g_objDoc.load = l /\ IsMTLComplete(g_objDoc))
      ]_vars

\* C17 witness: with the model of load 1 uploaded, the most recent tick found
\* the document of load 2 with its materials incomplete: it uploaded nothing
\* and drew the model of load 1.
C17_Witness ==
    /\ g_objDoc # Null
    /\ g_objDoc.load = 2
    /\ ~IsMTLComplete(g_objDoc)
    /\ lastTick = "ParsedReady"
    /\ uploads[1] = <<TRUE>>
    /\ uploads[2] = <<>>
    /\ ~UploadIssued
    /\ DrawIssued
    /\ model = MeshModel(parsed[1])

\* C18: once two loads have been under way at once, whichever completion
\* callback runs the parser decides what is drawn, whatever the order of
\* the readOBJFile calls: after a failed parse nothing is waiting, nothing
\* is uploaded and the next tick draws nothing; after a successful one its
\* document is the one the next tick that finds the materials complete
\* uploads and draws. Between the callbacks g_drawingInfo changes only in a
\* tick, to the arrays of the document then waiting.
C18_LastCompletionWins ==
    [][/\ \A l \in LoadIds :
            (ParseRan(l) /\ overlapped)
              => IF parsed'[l] = "fail"
                 THEN /\ g_objDoc' = Null
                      /\ g_drawingInfo' = Null
                      /\ ~NextTickDraws'
                 ELSE /\ g_objDoc' # Null
                      /\ g_objDoc'.load = l
                      /\ LET d == Draw([g_objDoc' EXCEPT !.mtl = TRUE],
                                       g_drawingInfo', model', FALSE, FALSE)
                         IN  /\ d.uploaded = l
                             /\ d.g_drawingInfo.load = l
                             /\ d.model = MeshModel(parsed'[l])
                             /\ HasCall(d.calls, "drawElements")
       /\ g_drawingInfo' # g_drawingInfo
            => \/ \E l \in LoadIds : ParseRan(l) /\ parsed'[l] = "fail"
               \/ (Tick /\ g_objDoc # Null
                        /\ g_drawingInfo' = GetDrawingInfo(g_objDoc))
      ]_vars

\* C18 witness: load 1 and load 2 were under way at once; load 2, issued
\* last, completed first and was uploaded; load 1 completed after it, and
\* the most recent tick uploaded and drew load 1.
C18_Witness ==
    /\ overlapped
    /\ OnlyTwoLoads
    /\ parsed[1] \in MeshNames
    /\ parsed[2] \in MeshNames
    /\ parsed[1] # parsed[2]
    /\ uploads[2] = <<TRUE>>
    /\ uploads[1] = <<TRUE>>
    /\ UploadIssued
    /\ DrawIssued
    /\ g_drawingInfo # Null
    /\ g_drawingInfo.load = 1
    /\ model = MeshModel(parsed[1])

====
